---- MODULE Spec2Model ----
(***************************************************************************)
(* A model of the TLE front end of the SGP4 propagator: SGP4::new and      *)
(* SGP4::twoline2rv (src/src/sgp4.rs) with the helpers they use            *)
(* (src/src/utils.rs, src/src/constants.rs).                               *)
(*                                                                         *)
(* Text is a sequence of one-character strings.  An f64 is modelled by the *)
(* exact value of the expression that produced it, written as the monomial *)
(*        n/d * PI^pi * DAY2MIN^day        (d = 0 stands for infinity),    *)
(* so rounding is not modelled; negative zero is not distinguished from    *)
(* zero, and the inputs below hold no negatively signed zero.              *)
(***************************************************************************)
EXTENDS Integers, Sequences, FiniteSets, TLC

VARIABLES
    pc,        \* where the caller is: "start", "constructed", "returned", "panicked"
    sgp4,      \* the SGP4 value (as last held; dropped once pc is past "constructed")
    tle,       \* the two lines handed to twoline2rv (<<>> before the call)
    year,      \* twoline2rv's local `year` (0 before it is computed)
    ret,       \* what twoline2rv returned to its caller ("none" before / on unwind)
    held,      \* whether the caller holds the SGP4 value, and the record in it
    initRuns   \* how many times sgp4init ran on the record

vars == <<pc, sgp4, tle, year, ret, held, initRuns>>

----------------------------------------------------------------------------
(* f64 values *)

RECURSIVE Gcd(_, _)
Gcd(a, b) == IF b = 0 THEN a ELSE Gcd(b, a % b)

Abs(x) == IF x < 0 THEN -x ELSE x

RECURSIVE Pow(_, _)
Pow(b, k) == IF k = 0 THEN 1 ELSE b * Pow(b, k - 1)

\* the value n/d * PI^p * DAY2MIN^k in lowest terms
Mk(n, d, p, k) ==
    IF d = 0 THEN [n |-> IF n < 0 THEN -1 ELSE 1, d |-> 0, pi |-> 0, day |-> 0]
    ELSE IF n = 0 THEN [n |-> 0, d |-> 1, pi |-> 0, day |-> 0]
    ELSE LET g == Gcd(Abs(n), Abs(d))
             s == IF d < 0 THEN -1 ELSE 1
         IN  [n |-> s * (n \div g), d |-> s * (d \div g), pi |-> p, day |-> k]

F(n) == Mk(n, 1, 0, 0)

Inf == Mk(1, 0, 0, 0)

FAdd(a, b) == Mk(a.n * b.d + b.n * a.d, a.d * b.d, a.pi, a.day)

FMul(a, b) ==
    LET g1 == Gcd(Abs(a.n), Abs(b.d))
        g2 == Gcd(Abs(b.n), Abs(a.d))
    IN  IF a.d = 0 \/ b.d = 0 THEN Mk(a.n * b.n, 0, 0, 0)
        ELSE Mk((a.n \div g1) * (b.n \div g2), (a.d \div g2) * (b.d \div g1),
                a.pi + b.pi, a.day + b.day)

FInv(a) == IF a.n = 0 THEN Inf ELSE Mk(a.d, a.n, -a.pi, -a.day)

FDiv(a, b) == FMul(a, FInv(b))

RECURSIVE FPowN(_, _)
FPowN(a, k) == IF k = 0 THEN F(1) ELSE FMul(a, FPowN(a, k - 1))

\* f64::powi
Powi(a, k) == IF k >= 0 THEN FPowN(a, k) ELSE FInv(FPowN(a, -k))

FLt(a, b) == a.n * b.d < b.n * a.d

FFloor(a) == IF a.n >= 0 THEN a.n \div a.d ELSE -((-a.n + a.d - 1) \div a.d)

----------------------------------------------------------------------------
(* constants.rs *)

DAY2MIN == 1440

Day2Min == Mk(1, 1, 0, 1)

PI == Mk(1, 1, 1, 0)

TWOPI == FMul(F(2), PI)

\* a value with its power of DAY2MIN lowered by k, the factor worked into n/d
Unfold(a, k) ==
    [FMul([a EXCEPT !.day = 0], F(Pow(DAY2MIN, k))) EXCEPT !.day = a.day - k]

\* equality of two values, whatever powers of DAY2MIN they are written with
\* (both are in lowest terms)
FEq(a, b) ==
    IF a.day > b.day /\ a.n # 0 /\ a.d # 0 THEN Unfold(a, a.day - b.day) = b
    ELSE IF b.day > a.day /\ b.n # 0 /\ b.d # 0 THEN a = Unfold(b, b.day - a.day)
    ELSE a = b

(* utils.rs *)

radians(deg) == FDiv(FMul(deg, PI), F(180))

----------------------------------------------------------------------------
(* text and str::parse *)

Digits == {"0", "1", "2", "3", "4", "5", "6", "7", "8", "9"}

DigitVal(c) ==
    CASE c = "0" -> 0 [] c = "1" -> 1 [] c = "2" -> 2 [] c = "3" -> 3
      [] c = "4" -> 4 [] c = "5" -> 5 [] c = "6" -> 6 [] c = "7" -> 7
      [] c = "8" -> 8 [] c = "9" -> 9

AllDigits(s) == \A i \in 1..Len(s) : s[i] \in Digits

\* the first position of s holding a character of cs, 0 when there is none
IndexOf(s, cs) ==
    LET hits == {i \in 1..Len(s) : s[i] \in cs}
    IN  IF hits = {} THEN 0 ELSE CHOOSE i \in hits : \A j \in hits : i <= j

\* the value of a digit string read as an integer
RECURSIVE IntOf(_)
IntOf(s) ==
    IF s = <<>> THEN 0
    ELSE 10 * IntOf(SubSeq(s, 1, Len(s) - 1)) + DigitVal(s[Len(s)])

\* the value of a digit string read after a decimal point
RECURSIVE FracOf(_)
FracOf(s) ==
    IF s = <<>> THEN F(0)
    ELSE FDiv(FAdd(F(DigitVal(Head(s))), FracOf(Tail(s))), F(10))

Err == [ok |-> FALSE, v |-> 0]

Ok(v) == [ok |-> TRUE, v |-> v]

\* <f64 as FromStr>::from_str.  The grammar is
\*     [+-] (digit+ | digit+ '.' digit* | digit* '.' digit+) [(e|E) [+-] digit+]
\* and surrounding whitespace is an error.  The literals inf, infinity and nan
\* need letters the inputs below never hold.
ParseF64(s) ==
    LET signed   == Len(s) > 0 /\ s[1] \in {"+", "-"}
        body     == IF signed THEN Tail(s) ELSE s
        e        == IndexOf(body, {"e", "E"})
        mant     == IF e = 0 THEN body ELSE SubSeq(body, 1, e - 1)
        ex       == IF e = 0 THEN <<>> ELSE SubSeq(body, e + 1, Len(body))
        exSigned == Len(ex) > 0 /\ ex[1] \in {"+", "-"}
        exDigits == IF exSigned THEN Tail(ex) ELSE ex
        dot      == IndexOf(mant, {"."})
        ip       == IF dot = 0 THEN mant ELSE SubSeq(mant, 1, dot - 1)
        fp       == IF dot = 0 THEN <<>> ELSE SubSeq(mant, dot + 1, Len(mant))
        wellFormed ==
            /\ AllDigits(ip)
            /\ AllDigits(fp)
            /\ Len(ip) + Len(fp) > 0
            /\ e # 0 => (Len(exDigits) > 0 /\ AllDigits(exDigits))
        k        == IF exSigned /\ ex[1] = "-" THEN -IntOf(exDigits) ELSE IntOf(exDigits)
        m        == FAdd(F(IntOf(ip)), FracOf(fp))
        mag      == FMul(m, Powi(F(10), k))
    IN  IF ~wellFormed THEN Err
        ELSE Ok(IF signed /\ s[1] = "-" THEN FMul(F(-1), mag) ELSE mag)

\* <u64 as FromStr>::from_str: an optional '+', then at least one digit.  (A
\* value past u64::MAX is an error too; no field is wide enough to hold one.)
ParseU64(s) ==
    LET body == IF Len(s) > 0 /\ s[1] = "+" THEN Tail(s) ELSE s
    IN  IF Len(body) > 0 /\ AllDigits(body) THEN Ok(IntOf(body)) ELSE Err

\* <i32 as FromStr>::from_str: an optional sign, then at least one digit
ParseI32(s) ==
    LET signed == Len(s) > 0 /\ s[1] \in {"+", "-"}
        body   == IF signed THEN Tail(s) ELSE s
    IN  IF Len(body) > 0 /\ AllDigits(body)
        THEN Ok(IF signed /\ s[1] = "-" THEN -IntOf(body) ELSE IntOf(body))
        ELSE Err

\* str::trim
RECURSIVE trim(_)
trim(s) ==
    IF s = <<>> THEN s
    ELSE IF Head(s) = " " THEN trim(Tail(s))
    ELSE IF s[Len(s)] = " " THEN trim(SubSeq(s, 1, Len(s) - 1))
    ELSE s

\* the slice s[a..b] of Rust (0-based, b exclusive); InRange is its bounds check
Slice(s, a, b) == SubSeq(s, a + 1, b)

InRange(s, b) == b <= Len(s)

----------------------------------------------------------------------------
(* utils.rs: WGSModel, GravitationalConstants, SatRec *)

WGSModel == {"WGS_72_LOW_PRECISION", "WGS_72", "WGS_84"}

\* get_grav_c: radiusearthkm of each model.  mu, xke, tumin and the harmonics
\* j2, j3, j4, j3oj2 need a square root or more digits than a 32-bit integer
\* holds; nothing below reads them.
get_grav_c(model) ==
    CASE model = "WGS_72" -> [radiusearthkm |-> Mk(6378135, 1000, 0, 0)]
      [] model = "WGS_84" -> [radiusearthkm |-> Mk(6378137, 1000, 0, 0)]
      [] model = "WGS_72_LOW_PRECISION" -> [radiusearthkm |-> Mk(6378135, 1000, 0, 0)]

\* Option
None == [some |-> FALSE]

Some(x) == [some |-> TRUE, val |-> x]

\* SatRecDefault with the init flag already set
SatRecDefault_InitSet ==
    [satnum |-> 0, classification |-> None, intldesg |-> <<>>,
     epochyr |-> 0, epochdays |-> F(0), ndot |-> F(0), nddot |-> F(0),
     bstar |-> F(0), elnum |-> 0, inclo |-> F(0), nodeo |-> F(0),
     ecco |-> F(0), argpo |-> F(0), mo |-> F(0), no_kozai |-> F(0),
     revnum |-> 0, jdsatepoch |-> F(0), jdsatepochf |-> F(0),
     derived |-> "default", init |-> TRUE, error |-> None]

\* SatRec::default() (#[derive(Default)]): numbers 0, strings empty, flags
\* false, options None.  `derived` stands for the coefficient fields a .. x7thm1,
\* which only sgp4init writes.
SatRecDefault ==
    [satnum |-> 0, classification |-> None, intldesg |-> <<>>,
     epochyr |-> 0, epochdays |-> F(0), ndot |-> F(0), nddot |-> F(0),
     bstar |-> F(0), elnum |-> 0, inclo |-> F(0), nodeo |-> F(0),
     ecco |-> F(0), argpo |-> F(0), mo |-> F(0), no_kozai |-> F(0),
     revnum |-> 0, jdsatepoch |-> F(0), jdsatepochf |-> F(0),
     derived |-> "default", init |-> FALSE, error |-> None]

----------------------------------------------------------------------------
(* sgp4.rs *)

\* Classification::from
ClassificationFrom(c) ==
    CASE c = "U" -> Some("Unclassified")
      [] c = "C" -> Some("Classified")
      [] OTHER   -> None

PropagationError ==
    {"InvalidElements", "NegativeMeanMotion", "EccentricityOutOfRange",
     "NegativeSemilatusRectum", "OrbitalDecay"}

\* SGP4::new
SGP4New(model, use_afspc_mode) ==
    [model |-> model, use_afspc_mode |-> use_afspc_mode,
     grav_const |-> get_grav_c(model), satrec |-> SatRecDefault,
     use_deep_space |-> FALSE, x2ox3 |-> FDiv(F(2), F(3)),
     jdstart_full |-> F(0), jdstop_full |-> F(0),
     sgp4init_out |-> [no_unkozai |-> F(0)]]

\* <SGP4 as Default>::default
SGP4Default == SGP4New("WGS_84", TRUE)

\* SGP4::preprocess_tle
preprocess_tle(l1, l2) == <<l1, l2>>

\* line[a..b].parse().unwrap(): the slice is bounds-checked, then parsed
Field(line, a, b, P(_)) == IF InRange(line, b) THEN P(Slice(line, a, b)) ELSE Err

\* the first year of the two-digit window
EpochPivot == 57

\* YearOf with the pivot year itself sent to the 2000s
YearOf_PivotIncluded(epochyr) ==
    epochyr + IF epochyr <= EpochPivot THEN 2000 ELSE 1900

\* `year` of twoline2rv
YearOf(epochyr) == epochyr + IF epochyr < EpochPivot THEN 2000 ELSE 1900

\* xpdotp of twoline2rv
xpdotp == FDiv(Day2Min, TWOPI)

\* every fallible read of twoline2rv's parse, in the order of the code
Parsed(l1, l2) ==
    [satnum    |-> Field(l1, 2, 7, ParseU64),
     class     |-> IF Len(l1) > 7 THEN Ok(l1[8]) ELSE Err,
     intldesg  |-> IF InRange(l1, 17) THEN Ok(trim(Slice(l1, 9, 17))) ELSE Err,
     epochyr   |-> Field(l1, 18, 20, ParseU64),
     epochdays |-> Field(l1, 20, 32, ParseF64),
     ndot      |-> Field(l1, 33, 43, ParseF64),
     nddot_m   |-> Field(l1, 44, 50, ParseF64),
     nddot_e   |-> Field(l1, 50, 52, ParseI32),
     bstar_m   |-> Field(l1, 53, 59, ParseF64),
     bstar_e   |-> Field(l1, 59, 61, ParseI32),
     elnum     |-> Field(l1, 64, 68, ParseU64),
     inclo     |-> Field(l2, 8, 16, ParseF64),
     nodeo     |-> Field(l2, 17, 25, ParseF64),
     ecco      |-> IF InRange(l2, 33)
                   THEN ParseF64(<<"0", ".">> \o trim(Slice(l2, 26, 33)))
                   ELSE Err,
     argpo     |-> Field(l2, 34, 42, ParseF64),
     mo        |-> Field(l2, 43, 51, ParseF64),
     no_kozai  |-> Field(l2, 53, 63, ParseF64),
     revnum    |-> Field(l2, 63, 68, ParseU64)]

\* whether some unwrap() or slice of the parse, whose results are p, panics
ParsePanics(p) == \E k \in DOMAIN p : ~p[k].ok

\* the record as the parse and the unit changes of twoline2rv leave it (lines
\* 155-181 and 187-188), from the results p of the reads, when none panicked
ParsedSatRec(old, p) ==
    [old EXCEPT
       !.satnum         = p.satnum.v,
       !.classification = ClassificationFrom(p.class.v),
       !.intldesg       = p.intldesg.v,
       !.epochyr        = p.epochyr.v,
       !.epochdays      = p.epochdays.v,
       !.ndot           = FDiv(p.ndot.v, FMul(xpdotp, Day2Min)),
       !.nddot          = FDiv(Powi(FMul(p.nddot_m.v, F(10)), p.nddot_e.v),
                               FMul(xpdotp, Powi(Day2Min, 2))),
       !.bstar          = Powi(FMul(p.bstar_m.v, F(10)), p.bstar_e.v),
       !.elnum          = p.elnum.v,
       !.inclo          = radians(p.inclo.v),
       !.nodeo          = radians(p.nodeo.v),
       !.ecco           = p.ecco.v,
       !.argpo          = radians(p.argpo.v),
       !.mo             = radians(p.mo.v),
       !.no_kozai       = FDiv(p.no_kozai.v, xpdotp),
       !.revnum         = p.revnum.v]

\* days2mdh followed by jday (called at lines 191-192, defined in no source
\* file): the split Julian date of day-of-year `days` of `year`, the day at 0h
\* and the fraction of the day, for the years 1901..2099.
JulianDate(yr, days, doy) ==
    [jd  |-> Mk(2 * (367 * yr - ((7 * yr) \div 4) + 30 + doy + 1721013) + 1, 2, 0, 0),
     jdf |-> FAdd(days, F(-doy))]

EpochJulianDate(yr, days) == JulianDate(yr, days, FFloor(days))

\* JD_EPOCH_1950 (used at line 195, defined in no source file): 1950 January
\* 0.0, the origin of the theory's time scale, 2433281.5
JD_EPOCH_1950 == Mk(4866563, 2, 0, 0)

\* the orbital period, in minutes, from which the deep-space regime starts
DeepSpacePeriod == 225

\* What the numerics of sgp4init come to, which are not computed here: the
\* corrected (Brouwer) mean motion, and whether the semilatus rectum
\* a(1 - e^2) is positive.  Periods names the periods 2 PI / no_unkozai tried.
Periods == {90, 224, 225, 1436}

InitNumerics ==
    {[no_unkozai |-> FDiv(TWOPI, F(p)), slr_pos |-> TRUE] : p \in Periods}
      \cup {[no_unkozai |-> F(0), slr_pos |-> TRUE],
            [no_unkozai |-> FDiv(TWOPI, F(90)), slr_pos |-> FALSE]}

\* the period 2 PI / no, in minutes
PeriodOf(no) == FDiv(TWOPI, no)

\* sgp4init (called at line 196, defined in no source file): the geometry
\* checks, the regime classification and the end state of the record
Sgp4init(self, epoch, d) ==
    LET e   == self.satrec.ecco
        err == IF FLt(e, F(0)) \/ ~FLt(e, F(1)) THEN Some("EccentricityOutOfRange")
               ELSE IF ~FLt(F(0), d.no_unkozai) THEN Some("NegativeMeanMotion")
               ELSE IF ~d.slr_pos THEN Some("NegativeSemilatusRectum")
               ELSE None
    IN  IF err # None
        THEN [self EXCEPT !.satrec.error = err]
        ELSE [self EXCEPT
                !.sgp4init_out.no_unkozai = d.no_unkozai,
                !.use_deep_space = ~FLt(PeriodOf(d.no_unkozai), F(DeepSpacePeriod)),
                !.satrec.derived = "computed",
                !.satrec.init = TRUE]

\* lines 190-192 of twoline2rv
SetEpoch(rec, jd) == [rec EXCEPT !.jdsatepoch = jd.jd, !.jdsatepochf = jd.jdf]

\* `epoch` of twoline2rv (line 195)
EpochOf(rec) ==
    FAdd(FAdd(rec.jdsatepoch, rec.jdsatepochf), FMul(F(-1), JD_EPOCH_1950))

\* line 196 of twoline2rv
InitWith(self, rec, d) == Sgp4init([self EXCEPT !.satrec = rec], EpochOf(rec), d)

\* twoline2rv from line 183 on, once the parse has left the record rec: the
\* value of self when the call returns
AfterParse(self, rec, d) ==
    InitWith(self,
             SetEpoch(rec, EpochJulianDate(YearOf(rec.epochyr), rec.epochdays)),
             d)

----------------------------------------------------------------------------
(* The lines handed to twoline2rv.  A line is put together from its fields, in
   the fixed columns of the format; Base is an element set every field of
   which the code reads, and Alt gives, per field, other contents: the same
   field blank-padded as catalogs write it, other values, and malformed text.
   An input differs from Base in at most MaxVaried fields, or in its year
   alone, which takes every value. *)

MaxVaried == 1

DigitCh == <<"0", "1", "2", "3", "4", "5", "6", "7", "8", "9">>

\* every two-digit year 00..99
YearFields == {<<DigitCh[(y \div 10) + 1], DigitCh[(y % 10) + 1]>> : y \in 0..99}

Base ==
    [satnum   |-> <<"2", "5", "5", "4", "4">>,
     class    |-> <<"U">>,
     intldesg |-> <<"9", "8", "0", "6", "7", "A", " ", " ">>,
     yr       |-> <<"0", "8">>,
     days     |-> <<"2", "6", "4", ".", "5", "0", "0", "0", "0", "0", "0", "0">>,
     ndot     |-> <<"-", ".", "0", "0", "0", "0", "2", "1", "8", "2">>,
     nddot    |-> <<"-", "0", "0", "0", "0", "2", "-", "1">>,
     bstar    |-> <<"-", "0", "0", "0", "0", "3", "-", "1">>,
     tail     |-> <<"0", "2", "9", "2", "7">>,
     inclo    |-> <<"0", "5", "1", ".", "6", "4", "1", "6">>,
     nodeo    |-> <<"2", "4", "7", ".", "4", "6", "2", "7">>,
     ecco     |-> <<"0", "0", "0", "6", "7", "0", "3">>,
     argpo    |-> <<"1", "3", "0", ".", "5", "3", "6", "0">>,
     mo       |-> <<"3", "2", "5", ".", "0", "2", "8", "8">>,
     mm       |-> <<"1", "5", ".", "5", "0", "0", "0", "0", "0", "0", "0">>,
     revnum   |-> <<"5", "6", "3", "5", "3">>]

Alt ==
    [satnum   |-> {<<" ", " ", "0", "0", "5">>,
                   <<"2", "5", "5", "4", "X">>},
     class    |-> {<<"C">>,
                   <<"X">>},
     intldesg |-> {<<" ", " ", " ", " ", " ", " ", " ", " ">>},
     yr       |-> {<<"0", "0">>,
                   <<"5", "6">>,
                   <<"5", "7">>,
                   <<"9", "9">>,
                   <<" ", "8">>},
     days     |-> {<<"0", "0", "1", ".", "0", "0", "0", "0", "0", "0", "0", "0">>,
                   <<"2", "6", "4", ".", "5", "0", "0", "0", "0", "0", "0", "X">>},
     ndot     |-> {<<" ", ".", "0", "0", "0", "0", "2", "1", "8", "2">>,
                   <<"+", ".", "0", "0", "0", "0", "2", "1", "8", "2">>},
     nddot    |-> {<<" ", "0", "0", "0", "0", "0", "-", "0">>,
                   <<"+", "0", "0", "0", "0", "0", "-", "0">>,
                   <<"+", "0", "0", "0", "0", "0", "+", "1">>,
                   <<"+", "0", "0", "0", "0", "3", "+", "2">>,
                   <<"+", "5", "0", "0", "0", "0", "+", "1">>,
                   <<"+", "0", "0", "0", "0", "0", "-", "1">>},
     bstar    |-> {<<" ", "2", "8", "0", "9", "8", "-", "4">>,
                   <<"+", "0", "0", "0", "0", "0", "-", "0">>,
                   <<"+", "0", "0", "0", "0", "4", "+", "2">>},
     tail     |-> {<<" ", "2", "9", "2", "7">>,
                   <<>>},
     inclo    |-> {<<" ", "5", "1", ".", "6", "4", "0", "0">>,
                   <<"0", "5", "1", ".", "6", "4", "0", "0">>,
                   <<"0", "9", "0", ".", "0", "0", "0", "0">>,
                   <<"5", "1", ".", "6", "4", "X", "0", "0">>},
     nodeo    |-> {<<" ", "4", "7", ".", "4", "6", "2", "7">>,
                   <<"0", "0", "0", ".", "0", "0", "0", "0">>},
     ecco     |-> {<<"1", "e", "5", " ", " ", " ", " ">>,
                   <<"0", "0", "X", "6", "7", "0", "3">>,
                   <<"-", "0", "0", "6", "7", "0", "3">>,
                   <<"9", "9", "9", "9", "9", "9", "9">>,
                   <<"0", "0", "0", "0", "0", "0", "0">>},
     argpo    |-> {<<" ", "3", "0", ".", "5", "3", "6", "0">>},
     mo       |-> {<<" ", " ", "5", ".", "0", "2", "8", "8">>},
     mm       |-> {<<" ", "2", ".", "0", "0", "0", "0", "0", "0", "0", "0">>,
                   <<"0", "0", ".", "0", "0", "0", "0", "0", "0", "0", "0">>,
                   <<"1", "5", ".", "5", "0", "0", "0", "0", "0", "0", "X">>,
                   <<"1", "6", ".", "1", "2", "5", "0", "0", "0", "0", "0">>},
     revnum   |-> {<<" ", " ", " ", " ", "1">>,
                   <<"5", "6", "3", "5", "X">>}]

FieldOrder ==
    <<"satnum", "class", "intldesg", "yr", "days", "ndot", "nddot", "bstar", "tail", "inclo", "nodeo", "ecco", "argpo", "mo", "mm", "revnum">>

RECURSIVE Vary(_, _)
Vary(i, budget) ==
    IF i > Len(FieldOrder) THEN {Base}
    ELSE LET k == FieldOrder[i]
         IN  Vary(i + 1, budget)
               \cup (IF budget = 0 THEN {}
                     ELSE {[r EXCEPT ![k] = a] : a \in Alt[k] \ {Base[k]},
                                                 r \in Vary(i + 1, budget - 1)})

Inputs == Vary(1, MaxVaried) \cup {[Base EXCEPT !.yr = y] : y \in YearFields}

\* line 1: columns 1, 3-7, 8, 10-17, 19-20, 21-32, 34-43, 45-52, 54-61, 63,
\* 65-68 and the checksum in 69; a line whose tail is missing ends after 64
Line1(f) ==
    <<"1", " ">> \o f.satnum \o f.class \o <<" ">> \o f.intldesg \o <<" ">>
      \o f.yr \o f.days \o <<" ">> \o f.ndot \o <<" ">> \o f.nddot \o <<" ">>
      \o f.bstar \o <<" ", "0", " ">> \o f.tail

\* line 2: columns 1, 3-7, 9-16, 18-25, 27-33, 35-42, 44-51, 53-63, 64-68 and
\* the checksum in 69
Line2(f) ==
    <<"2", " ">> \o Base.satnum \o <<" ">> \o f.inclo \o <<" ">> \o f.nodeo
      \o <<" ">> \o f.ecco \o <<" ">> \o f.argpo \o <<" ">> \o f.mo \o <<" ">>
      \o f.mm \o f.revnum \o <<"7">>

----------------------------------------------------------------------------
(* the caller *)

NoSGP4 == [model |-> "none"]

StateVector == "state_vector"

Init ==
    /\ pc = "start"
    /\ sgp4 = NoSGP4
    /\ tle = <<>>
    /\ year = 0
    /\ ret = "none"
    /\ held = FALSE
    /\ initRuns = 0

\* let sgp4 = SGP4::new(model, use_afspc_mode)
New(model, use_afspc_mode) ==
    /\ pc = "start"
    /\ pc' = "constructed"
    /\ sgp4' = SGP4New(model, use_afspc_mode)
    /\ held' = TRUE
    /\ UNCHANGED <<tle, year, ret, initRuns>>

\* let sgp4 = SGP4::default()
Default ==
    /\ pc = "start"
    /\ pc' = "constructed"
    /\ sgp4' = SGP4Default
    /\ held' = TRUE
    /\ UNCHANGED <<tle, year, ret, initRuns>>

\* sgp4.twoline2rv(l1, l2).  The call takes self by value (`mut self`):
\* whether it returns or unwinds, the caller no longer holds the SGP4 value,
\* which is dropped with the record in it; sgp4 keeps the value as it was when
\* dropped (on unwind, as it was before the call).  p holds the results of the reads of the parse,
\* rec the record the parse leaves, d what the numerics of sgp4init come to.
Returns(rec) ==
    /\ pc' = "returned"
    /\ year' = YearOf(rec.epochyr)
    /\ ret' = StateVector
    /\ initRuns' = initRuns + 1
    /\ \E d \in InitNumerics : sgp4' = AfterParse(sgp4, rec, d)

Unwinds ==
    /\ pc' = "panicked"
    /\ UNCHANGED <<sgp4, year, ret, initRuns>>

Parses(p) == IF ParsePanics(p) THEN Unwinds ELSE Returns(ParsedSatRec(sgp4.satrec, p))

Twoline2rv(l1, l2) ==
    /\ pc = "constructed"
    /\ held
    /\ held' = FALSE
    /\ tle' = preprocess_tle(l1, l2)
    /\ Parses(Parsed(l1, l2))

Next ==
    \/ \E model \in WGSModel, use_afspc_mode \in BOOLEAN : New(model, use_afspc_mode)
    \/ Default
    \/ \E f \in Inputs : Twoline2rv(Line1(f), Line2(f))

Spec == Init /\ [][Next]_vars

----------------------------------------------------------------------------
(* What the format says of a line, read off the text by column alone *)

Called == pc \in {"returned", "panicked"}

\* the text of columns a..b (1-based, inclusive) of a line
Cols(line, a, b) == SubSeq(line, a, b)

\* str::trim_start
RECURSIVE LeftTrim(_)
LeftTrim(s) == IF s # <<>> /\ Head(s) = " " THEN LeftTrim(Tail(s)) ELSE s

\* a right-justified, blank-padded decimal number: blanks, then an optional
\* sign, digits and at most one point
PaddedDecimal(t) ==
    /\ \A i \in 1..Len(t) : t[i] \in Digits \cup {" ", ".", "+", "-"}
    /\ ParseF64(LeftTrim(t)).ok

\* its value
Written(t) == ParseF64(LeftTrim(t)).v

\* a right-justified, blank-padded unsigned integer
PaddedInteger(t) == LeftTrim(t) # <<>> /\ AllDigits(LeftTrim(t))

\* an exponential-form field: a sign (or blank), five digits, the sign of the
\* exponent and its digit
ExpForm(t) ==
    /\ Len(t) = 8
    /\ t[1] \in {" ", "+", "-"}
    /\ AllDigits(SubSeq(t, 2, 6))
    /\ t[7] \in {"+", "-"}
    /\ t[8] \in Digits

\* its value: sign 0.ddddd * 10^(+-x)
ExpValue(t) ==
    FMul(Mk((IF t[1] = "-" THEN -1 ELSE 1) * IntOf(SubSeq(t, 2, 6)), 100000, 0, 0),
         Powi(F(10), (IF t[7] = "-" THEN -1 ELSE 1) * DigitVal(t[8])))

\* a well-formed element set: 69 columns a line, every field of its type in
\* its columns, numbers right-justified and blank-padded
NoradValid(l1, l2) ==
    /\ Len(l1) = 69 /\ Len(l2) = 69
    /\ PaddedInteger(Cols(l1, 3, 7))
    /\ l1[8] \in {"U", "C", "S"}
    /\ AllDigits(Cols(l1, 19, 20))
    /\ PaddedDecimal(Cols(l1, 21, 32))
    /\ PaddedDecimal(Cols(l1, 34, 43))
    /\ ExpForm(Cols(l1, 45, 52))
    /\ ExpForm(Cols(l1, 54, 61))
    /\ PaddedInteger(Cols(l1, 65, 68))
    /\ PaddedDecimal(Cols(l2, 9, 16))
    /\ PaddedDecimal(Cols(l2, 18, 25))
    /\ AllDigits(Cols(l2, 27, 33))
    /\ PaddedDecimal(Cols(l2, 35, 42))
    /\ PaddedDecimal(Cols(l2, 44, 51))
    /\ PaddedDecimal(Cols(l2, 53, 63))
    /\ PaddedInteger(Cols(l2, 64, 68))

\* degrees to radians, as the format's reader is to apply it
InRadians(w) == FDiv(FMul(w, PI), F(180))

\* the state of a record
Uninitialized(r) == ~r.init /\ r.error = None

Initialized(r) == r.init /\ r.error = None

Failed(r) == ~r.init /\ r.error.some /\ r.error.val \in PropagationError

----------------------------------------------------------------------------
(* Properties *)

\* C1: whenever a field of the two lines fails to parse as its numeric or
\* enumerated type, twoline2rv ends by reporting InvalidElements to its caller:
\* it does not crash and returns neither a record nor a state vector.
C1_InvalidElementsReported ==
    (Called /\ (ParsePanics(Parsed(tle[1], tle[2]))
                  \/ ClassificationFrom(tle[1][8]) = None))
      => (pc = "returned" /\ ret = "InvalidElements")

\* C2: for both exponential-form fields of line 1 (columns 45-52 and 54-61) the
\* decoded value is the mantissa 0.ddddd, with its sign, times 10 to the signed
\* exponent; the second derivative is stored after its unit change.
C2_ExponentialFields ==
    (pc = "returned" /\ ExpForm(Cols(tle[1], 45, 52)) /\ ExpForm(Cols(tle[1], 54, 61)))
      => /\ FEq(sgp4.satrec.bstar, ExpValue(Cols(tle[1], 54, 61)))
         /\ FEq(sgp4.satrec.nddot,
                FDiv(ExpValue(Cols(tle[1], 45, 52)), FMul(xpdotp, Powi(Day2Min, 2))))

\* C3: for every well-formed 69-column pair of lines, fields right-justified and
\* blank-padded, twoline2rv gets through the parse and stores each angle
\* (inclination, node, argument of perigee, mean anomaly) as its written
\* degrees times PI / 180.
C3_AnglesInRadians ==
    (Called /\ NoradValid(tle[1], tle[2]))
      => /\ pc = "returned"
         /\ FEq(sgp4.satrec.inclo, InRadians(Written(Cols(tle[2], 9, 16))))
         /\ FEq(sgp4.satrec.nodeo, InRadians(Written(Cols(tle[2], 18, 25))))
         /\ FEq(sgp4.satrec.argpo, InRadians(Written(Cols(tle[2], 35, 42))))
         /\ FEq(sgp4.satrec.mo, InRadians(Written(Cols(tle[2], 44, 51))))

\* C4: for every valid line 2 the stored mean motion is the whole mean-motion
\* field (columns 53-63, revolutions a day) times 2 PI / 1440, and the first
\* mean-motion derivative is its field (columns 34-43 of line 1) divided by
\* (1440 / 2 PI) * 1440.
C4_MeanMotionUnits ==
    (pc = "returned" /\ PaddedDecimal(Cols(tle[2], 53, 63))
                     /\ PaddedDecimal(Cols(tle[1], 34, 43)))
      => /\ FEq(sgp4.satrec.no_kozai,
                FDiv(FMul(Written(Cols(tle[2], 53, 63)), TWOPI), Day2Min))
         /\ FEq(sgp4.satrec.ndot,
                FDiv(Written(Cols(tle[1], 34, 43)),
                     FMul(FDiv(Day2Min, TWOPI), Day2Min)))

\* C5: every record the parse produces without an error has an eccentricity in
\* [0, 1) and a mean motion above 0, whatever the accepted text of the
\* eccentricity and mean-motion columns.
C5_ElementRanges ==
    pc = "returned"
      => /\ ~FLt(sgp4.satrec.ecco, F(0))
         /\ FLt(sgp4.satrec.ecco, F(1))
         /\ FLt(F(0), sgp4.satrec.no_kozai)

C7_RecordStaysAvailable ==
    (pc = "returned" /\ Initialized(sgp4.satrec)) => held

\* C8: a record whose period 2 PI / no_unkozai is 225 minutes or more is given
\* the result deep-space-unsupported, and no state vector is produced for it;
\* a record of a shorter period is never so classified.
C8_DeepSpaceUnsupported ==
    (pc = "returned" /\ Initialized(sgp4.satrec))
      => IF ~FLt(PeriodOf(sgp4.sgp4init_out.no_unkozai), F(DeepSpacePeriod))
         THEN sgp4.use_deep_space /\ ret = "deep_space_unsupported"
         ELSE ~sgp4.use_deep_space /\ ret # "deep_space_unsupported"

\* C10: for every two-digit epoch year yy of columns 19-20 of line 1, the year
\* the epoch is built from is 2000 + yy when yy < 57 and 1900 + yy otherwise,
\* and so lies in 1957..2056.
C10_EpochYear ==
    (pc = "returned" /\ AllDigits(Cols(tle[1], 19, 20)))
      => /\ year = IF IntOf(Cols(tle[1], 19, 20)) < 57
                   THEN 2000 + IntOf(Cols(tle[1], 19, 20))
                   ELSE 1900 + IntOf(Cols(tle[1], 19, 20))
         /\ year \in 1957..2056

\* a call that returned for the pivot year 57, expanded to 1957
C10_Witness ==
    /\ pc = "returned"
    /\ Cols(tle[1], 19, 20) = <<"5", "7">>
    /\ year = 1957

====
